---- MODULE Spec2Model ----
(***************************************************************************)
(* OIDC JWT issuer: reconciliation (onSync), rotation wakeups (onTimer)    *)
(* and the JWKS endpoint (handleJWKs), over the KV store, the timer        *)
(* service and the published signals.  Handlers are interleaved at their   *)
(* await points.                                                           *)
(***************************************************************************)
EXTENDS Integers, Sequences, FiniteSets, TLC

(***************************************************************************)
(* Bounds of the model.                                                    *)
(***************************************************************************)
\* number of events the environment may cause: a clock tick, a configuration
\* edit, a sync requested from outside, a call that throws
MaxEvents == 2
\* number of pairs kv.app.list returns per page
PageSize == 1
\* largest expirationMinutes the rotation interval is tabulated for
MaxMinutes == 130

(***************************************************************************)
(* Program constants.                                                      *)
(***************************************************************************)
KEY_GRACE_PERIOD_MINUTES == 30
MIN_EXPIRATION_MINUTES == 10
MIN_ROTATION_MINUTES == 5
RETRY_DELAY_SECONDS == 300
DEFAULT_EXPIRATION_MINUTES == 120
\* seconds of wall-clock time one tick of the model's clock stands for
TickSeconds == RETRY_DELAY_SECONDS

ALGORITHM == "RS256"
SUBJECT == "flows"
CURRENT_TOKEN_KEY == "current_token"
ROTATION_TIMER_KEY == "rotation_timer_id"
\* origin and host of app.http.url
AppOrigin == "https://app.example"
AppHost == "app.example"

\* JavaScript undefined, where the value would be a string
NoValue == "undefined"
\* JavaScript undefined / a missing KV value, where the value would be an object
Absent == [absent |-> TRUE]

(***************************************************************************)
(* Strings as sequences of UTF-16 code units, where the code reads them    *)
(* character by character (hashing, key prefixes).                         *)
(***************************************************************************)
StrChars(s) ==
    CASE s = "default" -> <<100, 101, 102, 97, 117, 108, 116>>
      [] s = "v2"      -> <<118, 50>>
      [] s = "uQ"      -> <<117, 81>>
      [] s = "api"     -> <<97, 112, 105>>
      [] s = "team"    -> <<116, 101, 97, 109>>
      [] s = "sub"     -> <<115, 117, 98>>
      [] s = "exp"     -> <<101, 120, 112>>
      [] s = "x"       -> <<120>>
      [] s = "y"       -> <<121>>
      [] OTHER         -> <<>>

RECURSIVE DigitsOf(_)
\* Number.prototype.toString for a non-negative integer
DigitsOf(n) ==
    IF n < 10 THEN <<48 + n>>
    ELSE DigitsOf(n \div 10) \o <<48 + (n % 10)>>

\* Number.prototype.toString for an int32; -2^31 has no positive counterpart
NumberToString(n) ==
    IF n >= 0 THEN DigitsOf(n)
    ELSE LET m == -(n + 1)
             q == m \div 10
             r == m % 10
         IN  <<45>> \o (IF r = 9 THEN DigitsOf(q + 1) \o <<48>>
                        ELSE IF q = 0 THEN <<49 + r>>
                        ELSE DigitsOf(q) \o <<49 + r>>)

RECURSIVE SeqLess(_, _)
\* lexicographic order of two code-unit sequences (the store's key order)
SeqLess(a, b) ==
    IF b = <<>> THEN FALSE
    ELSE IF a = <<>> THEN TRUE
    ELSE IF Head(a) # Head(b) THEN Head(a) < Head(b)
    ELSE SeqLess(Tail(a), Tail(b))

\* String.prototype.startsWith
StartsWith(s, p) ==
    /\ Len(p) <= Len(s)
    /\ SubSeq(s, 1, Len(p)) = p

(***************************************************************************)
(* crypto.ts: hashConfig                                                   *)
(***************************************************************************)
RECURSIVE ClaimsJSON(_)
\* JSON.stringify of the members of additionalClaims (string values)
ClaimsJSON(claims) ==
    IF claims = <<>> THEN <<>>
    ELSE <<34>> \o StrChars(Head(claims)[1]) \o <<34, 58, 34>>
         \o StrChars(Head(claims)[2]) \o <<34>>
         \o (IF Len(claims) > 1 THEN <<44>> ELSE <<>>)
         \o ClaimsJSON(Tail(claims))

\* JSON.stringify({expirationMinutes, audience, additionalClaims, keyring});
\* members whose value is undefined are left out
ConfigJSON(config) ==
    <<123, 34, 101, 120, 112, 105, 114, 97, 116, 105, 111, 110, 77, 105, 110,
      117, 116, 101, 115, 34, 58>>
    \o DigitsOf(config.expirationMinutes)
    \o (IF config.audience = NoValue THEN <<>>
        ELSE <<44, 34, 97, 117, 100, 105, 101, 110, 99, 101, 34, 58, 34>>
             \o StrChars(config.audience) \o <<34>>)
    \o (IF ~config.additionalClaims.given THEN <<>>
        ELSE <<44, 34, 97, 100, 100, 105, 116, 105, 111, 110, 97, 108, 67, 108,
               97, 105, 109, 115, 34, 58, 123>>
             \o ClaimsJSON(config.additionalClaims.members) \o <<125>>)
    \o (IF config.keyring = NoValue THEN <<>>
        ELSE <<44, 34, 107, 101, 121, 114, 105, 110, 103, 34, 58, 34>>
             \o StrChars(config.keyring) \o <<34>>)
    \o <<125>>

\* hash = (hash << 5) - hash + char; hash = hash & hash
\* i.e. hash*31 + char wrapped to a signed 32-bit integer.  The product is
\* formed on 16-bit halves so that no intermediate value leaves 32 bits.
HashStep(hash, char) ==
    LET lo  == hash % 65536
        hi  == (hash \div 65536) % 65536
        lo2 == lo * 31 + char
        hi2 == (hi * 31 + (lo2 \div 65536)) % 65536
        lo3 == lo2 % 65536
    IN  IF hi2 >= 32768 THEN (hi2 - 65536) * 65536 + lo3
        ELSE hi2 * 65536 + lo3

RECURSIVE HashChars(_, _, _, _)
\* the loop body over str[from..to]
HashChars(hash, str, from, to) ==
    IF from > to THEN hash
    ELSE HashChars(HashStep(hash, str[from]), str, from + 1, to)

\* characters hashed per stretch; each stretch's value is computed before the
\* next begins, which keeps the evaluation of a long string shallow
HashStretch == 12

RECURSIVE HashLoop(_, _, _)
\* for (let i = 0; i < configStr.length; i++) { ... }
HashLoop(hash, str, i) ==
    IF i > Len(str) THEN hash
    ELSE LET to == IF i + HashStretch - 1 < Len(str) THEN i + HashStretch - 1
                   ELSE Len(str)
             h  == HashChars(hash, str, i, to)
         IN  IF h \in Int THEN HashLoop(h, str, to + 1) ELSE hash

hashConfig(config) == NumberToString(HashLoop(0, ConfigJSON(config), 1))

(***************************************************************************)
(* Inputs: the configurations the operator may apply.                      *)
(***************************************************************************)
\* additionalClaims left undefined
NoClaims == [given |-> FALSE, members |-> <<>>]

\* additionalClaims given as an object: its members as <<name, value>> pairs
\* in insertion order
Claims(members) == [given |-> TRUE, members |-> members]

Cfg(exp, ring) ==
    [expirationMinutes |-> exp, audience |-> NoValue,
     additionalClaims |-> NoClaims, keyring |-> ring]

\* a configuration whose additionalClaims name two standard claims and one
\* custom claim
TamperingConfig ==
    [Cfg(10, "v2") EXCEPT !.additionalClaims =
        Claims(<< <<"sub", "x">>, <<"exp", "x">>, <<"team", "y">> >>)]

\* the configuration schema's defaults: expirationMinutes 120, keyring "default"
DefaultConfig == Cfg(DEFAULT_EXPIRATION_MINUTES, "default")

Configs ==
    {DefaultConfig, Cfg(5, "default"), Cfg(10, "v2"), Cfg(10, "uQ"),
     TamperingConfig}

(***************************************************************************)
(* State.                                                                  *)
(***************************************************************************)
VARIABLES
    config,        \* app.config, as last applied by the operator
    now,           \* Math.floor(Date.now() / 1000)
    kvKeys,        \* KV: the public key records, each with its TTL deadline
    kvToken,       \* KV: value under CURRENT_TOKEN_KEY
    kvTimer,       \* KV: value under ROTATION_TIMER_KEY
    timers,        \* every wakeup ever set, with its state: armed, fired, cancelled
    signals,       \* app.signals, written by the runtime from onSync's result
    status,        \* the app's status, from onSync's newStatus
    syncPending,   \* a sync has been requested and not yet started
    sync,          \* the onSync invocation in flight
    tmr,           \* the onTimer invocation in flight
    jwks,          \* the handleJWKs invocation in flight
    resp,          \* the /jwks response sent by the step just taken, if any
    ret,           \* the onSync / onTimer invocation that ended in the step just
                   \* taken, with its locals, if any
    nextKeyId,     \* next value of crypto.randomUUID()
    nextTimerId,   \* next id timers.set returns
    events,        \* environment events so far
    published,     \* history: every keyring value ever published
    revoked        \* history: key ids stored before a change of the published keyring

vars ==
    <<config, now, kvKeys, kvToken, kvTimer, timers, signals, status,
      syncPending, sync, tmr, jwks, resp, ret, nextKeyId, nextTimerId, events,
      published, revoked>>

\* JavaScript truthiness of an optional string
Truthy(v) == v # NoValue /\ v # ""

(***************************************************************************)
(* types.ts: CONSTANTS.KEY_STORE                                           *)
(***************************************************************************)
\* getKeyPrefix: (keyring) => `key:${keyring}:`
getKeyPrefix(keyring) == <<107, 101, 121, 58>> \o StrChars(keyring) \o <<58>>

\* `${getKeyPrefix(config.keyring || "default")}${newKeyId}`
KeyName(keyring, kid) == getKeyPrefix(keyring) \o DigitsOf(kid)

(***************************************************************************)
(* main.ts: calculateRotationInterval, createSignalUpdates                 *)
(***************************************************************************)
Max(a, b) == IF a >= b THEN a ELSE b

\* variant: the wakeup is set for the whole lifetime of the token
calculateRotationIntervalFullLifetime(expirationMinutes) ==
    Max(MIN_ROTATION_MINUTES, expirationMinutes)

\* variant: half the lifetime rounded up
calculateRotationIntervalCeil(expirationMinutes) ==
    Max(MIN_ROTATION_MINUTES, (expirationMinutes + 1) \div 2)

calculateRotationInterval(expirationMinutes) ==
    Max(MIN_ROTATION_MINUTES, expirationMinutes \div 2)

createSignalUpdates(tokenData, keyring) ==
    [token |-> tokenData.token, expiresAt |-> tokenData.expiresAt,
     issuer |-> AppOrigin, keyring |-> keyring]

(***************************************************************************)
(* crypto.ts: generateToken, generateKeyAndToken                           *)
(***************************************************************************)
\* the claims the issuer computes itself
StandardClaims(cfg, jti, t) ==
    [jti |-> jti,
     iss |-> AppOrigin,
     sub |-> SUBJECT,
     aud |-> IF Truthy(cfg.audience) THEN cfg.audience ELSE AppHost,
     exp |-> t + cfg.expirationMinutes * 60,
     iat |-> t,
     nbf |-> t]

\* the value the object given by the pairs has under name (the last wins)
MemberValue(members, name) ==
    LET at == {i \in 1..Len(members) : members[i][1] = name}
    IN  members[CHOOSE i \in at : \A o \in at : o <= i][2]

\* variant: the custom members are spread after the standard claims
SpreadCustomLast(members, standard) ==
    LET names == {members[i][1] : i \in 1..Len(members)}
    IN  [n \in names \cup DOMAIN standard |->
            IF n \in names THEN MemberValue(members, n) ELSE standard[n]]

\* { ...additionalClaims, jti, iss, sub, aud, exp, iat, nbf }
Spread(members, standard) ==
    LET names == {members[i][1] : i \in 1..Len(members)}
    IN  [n \in names \cup DOMAIN standard |->
            IF n \in DOMAIN standard THEN standard[n]
            ELSE MemberValue(members, n)]

\* the claims object: additionalClaims spread first, the standard claims after
TokenPayload(cfg, jti, t) ==
    Spread(cfg.additionalClaims.members, StandardClaims(cfg, jti, t))

\* generateToken: the signed JWT is its header's kid and its payload
generateToken(cfg, kid, t) ==
    [token |-> [kid |-> kid, alg |-> ALGORITHM, payload |-> TokenPayload(cfg, kid, t)],
     expiresAt |-> t + cfg.expirationMinutes * 60,
     configHash |-> hashConfig(cfg)]

\* variant: the TTL leaves out the grace period
keyTtlSecondsNoGrace(cfg) == cfg.expirationMinutes * 60

keyTtlSeconds(cfg) == (KEY_GRACE_PERIOD_MINUTES + cfg.expirationMinutes) * 60

\* variant: every key is filed under the default keyring
StoreKeyringAlwaysDefault(cfg) == "default"

\* the keyring generateKeyAndToken files the key under
StoreKeyring(cfg) == IF Truthy(cfg.keyring) THEN cfg.keyring ELSE "default"

\* generateRsaKeyPair: both halves exported as JWK; the n-th pair generated
\* has modulus n, the private half also carries the private exponent
generateRsaKeyPair(n) ==
    [privateKey |-> [kty |-> "RSA", n |-> n, e |-> "AQAB", d |-> n],
     publicKey |-> [kty |-> "RSA", n |-> n, e |-> "AQAB"]]

\* variant: the private half is what gets stored
StoredJwkPrivate(keyPair) == keyPair.privateKey

\* value: publicKey as JWK
StoredJwk(keyPair) == keyPair.publicKey

\* the public key record of kv.app.setMany
NewKeyRecord(cfg, tokenData) ==
    [keyring |-> StoreKeyring(cfg), kid |-> tokenData.token.kid,
     value |-> StoredJwk(generateRsaKeyPair(tokenData.token.kid)),
     expiresAt |-> now + keyTtlSeconds(cfg)]

\* variant: only the token record is written
StoreTokenOnly(cfg, tokenData) ==
    /\ kvKeys' = kvKeys
    /\ kvToken' = tokenData

\* kv.app.setMany([public key with ttl, current token])
StoreKeyAndToken(cfg, tokenData) ==
    /\ kvKeys' = kvKeys \cup {NewKeyRecord(cfg, tokenData)}
    /\ kvToken' = tokenData

(***************************************************************************)
(* Timer service.                                                          *)
(***************************************************************************)
\* the id of the n-th wakeup set
TimerId(n) == ToString(n)

\* wakeups set and neither fired nor unset
Armed == {t \in timers : t.state = "armed"}

\* timers.set(seconds): arms a wakeup and returns its id
TimersSet(seconds) ==
    /\ timers' = timers \cup {[id |-> TimerId(nextTimerId), delay |-> seconds,
                               due |-> now + seconds, state |-> "armed"]}
    /\ nextTimerId' = nextTimerId + 1

\* variant: unset leaves the wakeup armed
TimersUnsetNothing(id) == timers' = timers

\* timers.unset(id): a wakeup that already fired is left alone
TimersUnset(id) ==
    timers' = {IF t.id = id /\ t.state = "armed"
               THEN [t EXCEPT !.state = "cancelled"] ELSE t : t \in timers}

\* the runtime takes a due wakeup off the schedule to deliver it
TimersFire(t) ==
    timers' = (timers \ {t}) \cup {[t EXCEPT !.state = "fired"]}

\* the environment may still cause an event
CanHappen == events < MaxEvents

\* an environment event happens
Happens == events' = events + 1

\* what a handler finds when it is invoked (kept for the record of its return)
Snapshot ==
    [kvKeys |-> kvKeys, kvToken |-> kvToken, kvTimer |-> kvTimer,
     timers |-> timers, signals |-> signals, nextKeyId |-> nextKeyId,
     nextTimerId |-> nextTimerId, rotating |-> tmr.pc # "idle"]

(***************************************************************************)
(* Initial state: a fresh installation under any configuration; the        *)
(* runtime owes it a first sync.                                           *)
(***************************************************************************)
SyncIdle ==
    [pc |-> "idle", config |-> Absent, sigKeyring |-> NoValue,
     branch |-> NoValue, currentToken |-> Absent, tokenData |-> Absent,
     existingTimerId |-> NoValue, timerId |-> NoValue, before |-> Absent]

TmrIdle ==
    [pc |-> "idle", config |-> Absent, tokenData |-> Absent,
     timerId |-> NoValue, firedId |-> NoValue, threwAt |-> NoValue,
     before |-> Absent]

JwksIdle ==
    [pc |-> "idle", keyring |-> NoValue, startingKey |-> <<>>,
     pubKeys |-> <<>>, during |-> Absent, revoked |-> {}, stored |-> {},
     startedAt |-> 0]

NoSignals ==
    [token |-> Absent, expiresAt |-> NoValue, issuer |-> NoValue,
     keyring |-> NoValue]

Init ==
    /\ config \in Configs
    /\ now = 0
    /\ kvKeys = {}
    /\ kvToken = Absent
    /\ kvTimer = NoValue
    /\ timers = {}
    /\ signals = NoSignals
    /\ status = "draft"
    /\ syncPending = TRUE
    /\ sync = SyncIdle
    /\ tmr = TmrIdle
    /\ jwks = JwksIdle
    /\ resp = Absent
    /\ ret = Absent
    /\ nextKeyId = 1
    /\ nextTimerId = 1
    /\ events = 0
    /\ published = {}
    /\ revoked = {}

(***************************************************************************)
(* Environment: the operator, the runtime, the clock.                      *)
(***************************************************************************)
\* the operator applies another configuration; the runtime syncs on that
ConfigChange(c) ==
    /\ CanHappen
    /\ Happens
    /\ c # config
    /\ config' = c
    /\ syncPending' = TRUE
    /\ resp' = Absent
    /\ ret' = Absent
    /\ UNCHANGED <<now, kvKeys, kvToken, kvTimer, timers, signals, status, sync,
                   tmr, jwks, nextKeyId, nextTimerId, published, revoked>>

\* the runtime syncs again under the same configuration (a restart, a
\* redeploy, a sync asked for by hand)
Resync ==
    /\ CanHappen
    /\ Happens
    /\ ~syncPending
    /\ syncPending' = TRUE
    /\ resp' = Absent
    /\ ret' = Absent
    /\ UNCHANGED <<config, now, kvKeys, kvToken, kvTimer, timers, signals,
                   status, sync, tmr, jwks, nextKeyId, nextTimerId, published,
                   revoked>>

Tick ==
    /\ CanHappen
    /\ Happens
    /\ now' = now + TickSeconds
    /\ resp' = Absent
    /\ ret' = Absent
    /\ UNCHANGED <<config, kvKeys, kvToken, kvTimer, timers, signals, status,
                   syncPending, sync, tmr, jwks, nextKeyId, nextTimerId,
                   published, revoked>>

(***************************************************************************)
(* main.ts: onSync                                                         *)
(***************************************************************************)
\* variant: the validation only rejects lifetimes under the rotation floor
ConfigInvalidBelowFloor(cfg) == cfg.expirationMinutes < MIN_ROTATION_MINUTES

\* if (config.expirationMinutes < 10)
ConfigInvalid(cfg) == cfg.expirationMinutes < MIN_EXPIRATION_MINUTES

\* the three-way branch on the stored token
SyncBranch(currentToken, cfg) ==
    IF currentToken = Absent THEN "initial"
    ELSE IF currentToken.configHash # hashConfig(cfg) THEN "change"
    ELSE "reuse"

\* variant: the keyring is always recomputed from the configuration
CurrentKeyringFromConfig(sigKeyring, configKeyring) == configKeyring

\* const currentKeyring = app.signals.keyring || configKeyring
CurrentKeyring(sigKeyring, configKeyring) ==
    IF Truthy(sigKeyring) THEN sigKeyring ELSE configKeyring

\* the runtime applies signalUpdates and newStatus: "ready"
Publish(tokenData, activeKeyring) ==
    /\ status' = "ready"
    /\ signals' = createSignalUpdates(tokenData, activeKeyring)
    /\ published' = published \cup {activeKeyring}
    /\ revoked' =
         IF Truthy(signals.keyring) /\ signals.keyring # activeKeyring
         THEN revoked \cup {k.kid : k \in {r \in kvKeys : r.keyring # activeKeyring}}
         ELSE revoked

\* onSync returns; call holds the invocation's locals at that point
SyncReturns(newStatus, call) ==
    /\ ret' = [handler |-> "onSync", newStatus |-> newStatus, call |-> call]
    /\ sync' = SyncIdle

\* the runtime starts a sync; validation is the handler's first statement
SyncStart ==
    /\ sync.pc = "idle"
    /\ syncPending
    /\ syncPending' = FALSE
    /\ LET call == [SyncIdle EXCEPT !.pc = "get", !.config = config,
                                    !.sigKeyring = signals.keyring,
                                    !.before = Snapshot]
       IN  IF ConfigInvalid(config)
           THEN /\ status' = "failed"
                /\ SyncReturns("failed", [call EXCEPT !.branch = "invalid"])
           ELSE /\ sync' = call
                /\ ret' = Absent
                /\ status' = status
    /\ resp' = Absent
    /\ UNCHANGED <<config, now, kvKeys, kvToken, kvTimer, timers, signals, tmr,
                   jwks, nextKeyId, nextTimerId, events, published, revoked>>

\* kv.app.get(CURRENT_TOKEN_KEY) and the branch; the reuse branch returns
SyncGet ==
    /\ sync.pc = "get"
    /\ LET call == [sync EXCEPT !.branch = SyncBranch(kvToken, sync.config),
                                !.currentToken = kvToken]
       IN  IF call.branch = "reuse"
           THEN /\ Publish(kvToken,
                           CurrentKeyring(sync.sigKeyring, sync.config.keyring))
                /\ SyncReturns("ready", [call EXCEPT !.tokenData = kvToken])
           ELSE /\ sync' = [call EXCEPT !.pc = "gen"]
                /\ ret' = Absent
                /\ UNCHANGED <<status, signals, published, revoked>>
    /\ resp' = Absent
    /\ UNCHANGED <<config, now, kvKeys, kvToken, kvTimer, timers, syncPending,
                   tmr, jwks, nextKeyId, nextTimerId, events>>

\* generateKeyAndToken: new key id, key pair, signed token
SyncGen ==
    /\ sync.pc = "gen"
    /\ sync' = [sync EXCEPT !.pc = "store",
                            !.tokenData = generateToken(sync.config, nextKeyId, now)]
    /\ nextKeyId' = nextKeyId + 1
    /\ resp' = Absent
    /\ ret' = Absent
    /\ UNCHANGED <<config, now, kvKeys, kvToken, kvTimer, timers, signals,
                   status, syncPending, tmr, jwks, nextTimerId, events,
                   published, revoked>>

\* generateKeyAndToken: kv.app.setMany
SyncStore ==
    /\ sync.pc = "store"
    /\ StoreKeyAndToken(sync.config, sync.tokenData)
    /\ sync' = [sync EXCEPT !.pc = IF sync.branch = "initial" THEN "arm"
                                   ELSE "gettimer"]
    /\ resp' = Absent
    /\ ret' = Absent
    /\ UNCHANGED <<config, now, kvTimer, timers, signals, status, syncPending,
                   tmr, jwks, nextKeyId, nextTimerId, events, published,
                   revoked>>

\* handleConfigChange: kv.app.get(ROTATION_TIMER_KEY)
SyncGetTimer ==
    /\ sync.pc = "gettimer"
    /\ sync' = [sync EXCEPT !.pc = IF Truthy(kvTimer) THEN "unset" ELSE "arm",
                            !.existingTimerId = kvTimer]
    /\ resp' = Absent
    /\ ret' = Absent
    /\ UNCHANGED <<config, now, kvKeys, kvToken, kvTimer, timers, signals,
                   status, syncPending, tmr, jwks, nextKeyId, nextTimerId,
                   events, published, revoked>>

\* handleConfigChange: timers.unset(existingTimerId)
SyncUnset ==
    /\ sync.pc = "unset"
    /\ TimersUnset(sync.existingTimerId)
    /\ sync' = [sync EXCEPT !.pc = "arm"]
    /\ resp' = Absent
    /\ ret' = Absent
    /\ UNCHANGED <<config, now, kvKeys, kvToken, kvTimer, signals, status,
                   syncPending, tmr, jwks, nextKeyId, nextTimerId, events,
                   published, revoked>>

\* handleInitialSetup / handleConfigChange: timers.set(interval * 60)
SyncArm ==
    /\ sync.pc = "arm"
    /\ TimersSet(calculateRotationInterval(sync.config.expirationMinutes) * 60)
    /\ sync' = [sync EXCEPT !.pc = "settimer", !.timerId = TimerId(nextTimerId)]
    /\ resp' = Absent
    /\ ret' = Absent
    /\ UNCHANGED <<config, now, kvKeys, kvToken, kvTimer, signals, status,
                   syncPending, tmr, jwks, nextKeyId, events, published,
                   revoked>>

\* kv.app.set(ROTATION_TIMER_KEY), then onSync returns ready
SyncSetTimer ==
    /\ sync.pc = "settimer"
    /\ kvTimer' = sync.timerId
    /\ Publish(sync.tokenData, sync.config.keyring)
    /\ SyncReturns("ready", sync)
    /\ resp' = Absent
    /\ UNCHANGED <<config, now, kvKeys, kvToken, timers, syncPending, tmr, jwks,
                   nextKeyId, nextTimerId, events>>

\* variant: the failed pass withdraws the signals
SyncThrowClearsSignals ==
    /\ sync.pc \in {"get", "gen", "store", "gettimer", "unset", "arm", "settimer"}
    /\ CanHappen
    /\ Happens
    /\ status' = "failed"
    /\ signals' = NoSignals
    /\ SyncReturns("failed", sync)
    /\ resp' = Absent
    /\ UNCHANGED <<config, now, kvKeys, kvToken, kvTimer, timers, syncPending,
                   tmr, jwks, nextKeyId, nextTimerId, published, revoked>>

\* an awaited call of the pass throws: catch, return failed
SyncThrow ==
    /\ sync.pc \in {"get", "gen", "store", "gettimer", "unset", "arm", "settimer"}
    /\ CanHappen
    /\ Happens
    /\ status' = "failed"
    /\ SyncReturns("failed", sync)
    /\ resp' = Absent
    /\ UNCHANGED <<config, now, kvKeys, kvToken, kvTimer, timers, signals,
                   syncPending, tmr, jwks, nextKeyId, nextTimerId, published,
                   revoked>>

(***************************************************************************)
(* main.ts: onTimer                                                        *)
(***************************************************************************)
\* onTimer ends; call holds the invocation's locals at that point
TmrReturns(outcome, call) ==
    /\ ret' = [handler |-> "onTimer", newStatus |-> outcome, call |-> call]
    /\ tmr' = TmrIdle

\* a due wakeup fires: the runtime invokes onTimer with the current config
TimerFire(t) ==
    /\ tmr.pc = "idle"
    /\ t \in Armed
    /\ now >= t.due
    /\ TimersFire(t)
    /\ tmr' = [TmrIdle EXCEPT !.pc = "gen", !.config = config, !.firedId = t.id,
                              !.before = Snapshot]
    /\ resp' = Absent
    /\ ret' = Absent
    /\ UNCHANGED <<config, now, kvKeys, kvToken, kvTimer, signals, status,
                   syncPending, sync, jwks, nextKeyId, nextTimerId, events,
                   published, revoked>>

\* generateKeyAndToken: new key id, key pair, signed token
TmrGen ==
    /\ tmr.pc = "gen"
    /\ tmr' = [tmr EXCEPT !.pc = "store",
                          !.tokenData = generateToken(tmr.config, nextKeyId, now)]
    /\ nextKeyId' = nextKeyId + 1
    /\ resp' = Absent
    /\ ret' = Absent
    /\ UNCHANGED <<config, now, kvKeys, kvToken, kvTimer, timers, signals,
                   status, syncPending, sync, jwks, nextTimerId, events,
                   published, revoked>>

\* generateKeyAndToken: kv.app.setMany
TmrStore ==
    /\ tmr.pc = "store"
    /\ StoreKeyAndToken(tmr.config, tmr.tokenData)
    /\ tmr' = [tmr EXCEPT !.pc = "sync"]
    /\ resp' = Absent
    /\ ret' = Absent
    /\ UNCHANGED <<config, now, kvTimer, timers, signals, status, syncPending,
                   sync, jwks, nextKeyId, nextTimerId, events, published,
                   revoked>>

\* lifecycle.sync(): asks the runtime for a sync
TmrSync ==
    /\ tmr.pc = "sync"
    /\ syncPending' = TRUE
    /\ tmr' = [tmr EXCEPT !.pc = "arm"]
    /\ resp' = Absent
    /\ ret' = Absent
    /\ UNCHANGED <<config, now, kvKeys, kvToken, kvTimer, timers, signals,
                   status, sync, jwks, nextKeyId, nextTimerId, events,
                   published, revoked>>

\* timers.set(nextInterval * 60)
TmrArm ==
    /\ tmr.pc = "arm"
    /\ TimersSet(calculateRotationInterval(tmr.config.expirationMinutes) * 60)
    /\ tmr' = [tmr EXCEPT !.pc = "settimer", !.timerId = TimerId(nextTimerId)]
    /\ resp' = Absent
    /\ ret' = Absent
    /\ UNCHANGED <<config, now, kvKeys, kvToken, kvTimer, signals, status,
                   syncPending, sync, jwks, nextKeyId, events, published,
                   revoked>>

\* kv.app.set(ROTATION_TIMER_KEY, nextTimerId); the handler returns
TmrSetTimer ==
    /\ tmr.pc = "settimer"
    /\ kvTimer' = tmr.timerId
    /\ TmrReturns("returned", tmr)
    /\ resp' = Absent
    /\ UNCHANGED <<config, now, kvKeys, kvToken, timers, signals, status,
                   syncPending, sync, jwks, nextKeyId, nextTimerId, events,
                   published, revoked>>

\* an awaited call of the try block throws: control enters the catch block
TmrThrow ==
    /\ tmr.pc \in {"gen", "store", "sync", "arm", "settimer"}
    /\ CanHappen
    /\ Happens
    /\ tmr' = [tmr EXCEPT !.pc = "retry_arm", !.threwAt = tmr.pc]
    /\ resp' = Absent
    /\ ret' = Absent
    /\ UNCHANGED <<config, now, kvKeys, kvToken, kvTimer, timers, signals,
                   status, syncPending, sync, jwks, nextKeyId, nextTimerId,
                   published, revoked>>

\* catch: timers.set(300)
TmrRetryArm ==
    /\ tmr.pc = "retry_arm"
    /\ TimersSet(RETRY_DELAY_SECONDS)
    /\ tmr' = [tmr EXCEPT !.pc = "retry_set", !.timerId = TimerId(nextTimerId)]
    /\ resp' = Absent
    /\ ret' = Absent
    /\ UNCHANGED <<config, now, kvKeys, kvToken, kvTimer, signals, status,
                   syncPending, sync, jwks, nextKeyId, events, published,
                   revoked>>

\* catch: kv.app.set(ROTATION_TIMER_KEY, retryTimerId); the handler returns
TmrRetrySet ==
    /\ tmr.pc = "retry_set"
    /\ kvTimer' = tmr.timerId
    /\ TmrReturns("returned", tmr)
    /\ resp' = Absent
    /\ UNCHANGED <<config, now, kvKeys, kvToken, timers, signals, status,
                   syncPending, sync, jwks, nextKeyId, nextTimerId, events,
                   published, revoked>>

\* an awaited call of the catch block throws: the error leaves the handler
\* (part of the failure that entered the catch block, so no further event)
TmrRetryThrow ==
    /\ tmr.pc \in {"retry_arm", "retry_set"}
    /\ TmrReturns("threw", tmr)
    /\ resp' = Absent
    /\ UNCHANGED <<config, now, kvKeys, kvToken, kvTimer, timers, signals,
                   status, syncPending, sync, jwks, nextKeyId, nextTimerId,
                   events, published, revoked>>

(***************************************************************************)
(* KV store: kv.app.list                                                   *)
(***************************************************************************)
\* records whose TTL has not run out
LiveKeys == {k \in kvKeys : k.expiresAt > now}

NameOf(k) == KeyName(k.keyring, k.kid)

\* live records under keyPrefix, from startingKey on
Listed(keyPrefix, startingKey) ==
    {k \in LiveKeys :
        /\ StartsWith(NameOf(k), keyPrefix)
        /\ startingKey = <<>> \/ ~SeqLess(NameOf(k), startingKey)}

RECURSIVE InKeyOrder(_)
\* a set of records as a sequence in the order of their key names
InKeyOrder(S) ==
    IF S = {} THEN <<>>
    ELSE LET first == CHOOSE k \in S : \A o \in S \ {k} : SeqLess(NameOf(k), NameOf(o))
         IN  <<first>> \o InKeyOrder(S \ {first})

\* kv.app.list({keyPrefix, startingKey}) -> {pairs, nextStartingKey}
KvList(keyPrefix, startingKey) ==
    LET all == InKeyOrder(Listed(keyPrefix, startingKey))
    IN  [pairs |-> SubSeq(all, 1, IF Len(all) < PageSize THEN Len(all) ELSE PageSize),
         nextStartingKey |-> IF Len(all) > PageSize THEN NameOf(all[PageSize + 1])
                             ELSE <<>>]

(***************************************************************************)
(* handlers.ts: handleJWKs                                                 *)
(***************************************************************************)
\* pubKeys.push({ ...pair.value, alg: CONSTANTS.ALGORITHM, use: "sig" })
PubKeyEntry(pair) == [pub |-> pair.kid, alg |-> ALGORITHM, use |-> "sig"]

\* variant: without a published keyring the listing falls back to the
\* configured one
ListingKeyringOrConfigured(sigKeyring, configKeyring) ==
    IF Truthy(sigKeyring) THEN sigKeyring ELSE configKeyring

\* variant: the listing follows the configured keyring, not the published one
ListingKeyringFromConfig(sigKeyring, configKeyring) == configKeyring

\* keyPrefix: CONSTANTS.KEY_STORE.getKeyPrefix(app.signals.keyring)
ListingKeyring(sigKeyring, configKeyring) == sigKeyring

\* the reconciliation in flight, as (published keyring, configured keyring)
SyncInFlight ==
    IF sync.pc = "idle" THEN Absent
    ELSE [from |-> sync.sigKeyring, to |-> sync.config.keyring]

JwksResponse(statusCode, keys, request) ==
    [statusCode |-> statusCode, keys |-> keys, keyring |-> request.keyring,
     during |-> request.during, revoked |-> request.revoked,
     stored |-> request.stored, startedAt |-> request.startedAt]

\* a request arrives; without a keyring signal it is answered at once
JwksStart ==
    /\ jwks.pc = "idle"
    /\ LET request == [JwksIdle EXCEPT !.keyring = ListingKeyring(signals.keyring,
                                                                  config.keyring),
                                       !.during = SyncInFlight,
                                       !.revoked = revoked,
                                       !.stored = kvKeys,
                                       !.startedAt = now]
       IN  IF ~Truthy(request.keyring)
           THEN /\ resp' = JwksResponse(200, <<>>, request)
                /\ jwks' = JwksIdle
           ELSE /\ resp' = Absent
                /\ jwks' = [request EXCEPT !.pc = "list"]
    /\ ret' = Absent
    /\ UNCHANGED <<config, now, kvKeys, kvToken, kvTimer, timers, signals,
                   status, syncPending, sync, tmr, nextKeyId, nextTimerId,
                   events, published, revoked>>

\* variant: the response is sent after the first page
JwksListFirstPageOnly ==
    /\ jwks.pc = "list"
    /\ LET page == KvList(getKeyPrefix(jwks.keyring), jwks.startingKey)
           pubKeys == jwks.pubKeys
                      \o [i \in 1..Len(page.pairs) |-> PubKeyEntry(page.pairs[i])]
       IN  /\ jwks' = JwksIdle
           /\ resp' = JwksResponse(200, pubKeys, jwks)
    /\ ret' = Absent
    /\ UNCHANGED <<config, now, kvKeys, kvToken, kvTimer, timers, signals,
                   status, syncPending, sync, tmr, nextKeyId, nextTimerId,
                   events, published, revoked>>

\* one page of kv.app.list; after the last page the response is sent
JwksList ==
    /\ jwks.pc = "list"
    /\ LET page == KvList(getKeyPrefix(jwks.keyring), jwks.startingKey)
           pubKeys == jwks.pubKeys
                      \o [i \in 1..Len(page.pairs) |-> PubKeyEntry(page.pairs[i])]
       IN  IF page.nextStartingKey # <<>>
           THEN /\ jwks' = [jwks EXCEPT !.startingKey = page.nextStartingKey,
                                        !.pubKeys = pubKeys]
                /\ resp' = Absent
           ELSE /\ jwks' = JwksIdle
                /\ resp' = JwksResponse(200, pubKeys, jwks)
    /\ ret' = Absent
    /\ UNCHANGED <<config, now, kvKeys, kvToken, kvTimer, timers, signals,
                   status, syncPending, sync, tmr, nextKeyId, nextTimerId,
                   events, published, revoked>>

\* kv.app.list throws: onRequest's catch answers 500
JwksThrow ==
    /\ jwks.pc = "list"
    /\ CanHappen
    /\ Happens
    /\ jwks' = JwksIdle
    /\ resp' = JwksResponse(500, <<>>, jwks)
    /\ ret' = Absent
    /\ UNCHANGED <<config, now, kvKeys, kvToken, kvTimer, timers, signals,
                   status, syncPending, sync, tmr, nextKeyId, nextTimerId,
                   published, revoked>>

(***************************************************************************)
(* Specification.                                                          *)
(***************************************************************************)
Next ==
    \/ \E c \in Configs : ConfigChange(c)
    \/ Resync
    \/ Tick
    \/ SyncStart
    \/ SyncGet
    \/ SyncGen
    \/ SyncStore
    \/ SyncGetTimer
    \/ SyncUnset
    \/ SyncArm
    \/ SyncSetTimer
    \/ SyncThrow
    \/ \E t \in timers : TimerFire(t)
    \/ TmrGen
    \/ TmrStore
    \/ TmrSync
    \/ TmrArm
    \/ TmrSetTimer
    \/ TmrThrow
    \/ TmrRetryArm
    \/ TmrRetrySet
    \/ TmrRetryThrow
    \/ JwksStart
    \/ JwksList
    \/ JwksThrow

Spec == Init /\ [][Next]_vars

(***************************************************************************)
(* Properties.                                                             *)
(***************************************************************************)

\* C1: whenever a keyring is published as activeKeyring, a public key has
\* been stored under that keyring's prefix.
C1_PublishedKeyringHasStoredKey ==
    Truthy(signals.keyring) => \E k \in kvKeys : k.keyring = signals.keyring

\* C2: once a reconciliation has moved the active keyring from K1 to another
\* keyring K2, no JWKS request served afterwards answers with a key that was
\* stored before under another keyring.
C2_NoRevokedKeyServed ==
    resp # Absent =>
        \A i \in 1..Len(resp.keys) : resp.keys[i].pub \notin resp.revoked

\* C3: a JWKS request served while the reconciliation from "default" to "v2"
\* is in flight answers with keys of "default" only (or none); a key stored
\* under "v2" is answered only after a reconciliation published "v2"; no
\* answer mixes keys of two keyrings.
C3_JwksFollowsPublishedKeyring ==
    resp # Absent =>
        LET ringOf(i) == (CHOOSE k \in kvKeys : k.kid = resp.keys[i].pub).keyring
            idx == 1..Len(resp.keys)
        IN  /\ resp.during = [from |-> "default", to |-> "v2"]
                => \A i \in idx : ringOf(i) = "default"
            /\ (\E i \in idx : ringOf(i) = "v2") => "v2" \in published
            /\ \A i, j \in idx : ringOf(i) = ringOf(j)

\* the reconciliation default -> v2 has stored its v2 key and is not yet
\* complete, and a request served meanwhile answers with the default key
C3_Witness ==
    /\ resp # Absent
    /\ resp.during = [from |-> "default", to |-> "v2"]
    /\ resp.statusCode = 200
    /\ Len(resp.keys) > 0
    /\ \E k \in kvKeys : k.keyring = "v2"
    /\ sync.pc \in {"gettimer", "unset", "arm", "settimer"}

\* C4: at most one rotation wakeup is armed at any time.
C4_AtMostOneArmedWakeup == Cardinality(Armed) <= 1

\* C5: a rotation wakeup one of whose steps failed leaves the persisted
\* token, the stored keys and the published token as they were, and arms
\* exactly one new wakeup, of 300 seconds, whose handle is persisted.
C5_FailedRotationChangesNothing ==
    (ret # Absent /\ ret.handler = "onTimer" /\ ret.call.threwAt # NoValue) =>
        LET before == ret.call.before
            new == {t \in timers : t.id \notin {b.id : b \in before.timers}}
        IN  /\ kvToken = before.kvToken
            /\ kvKeys = before.kvKeys
            /\ signals.token = before.signals.token
            /\ Cardinality(new) = 1
            /\ \A t \in new : /\ t.delay = 300
                              /\ t.state = "armed"
                              /\ kvTimer = t.id

\* C6: a reconciliation pass under a configuration with expirationMinutes
\* below 10 ends failed and leaves the persisted token, the key store, the
\* persisted timer handle, the wakeups and the signals as it found them; it
\* generates no key and arms no wakeup.
C6_InvalidConfigChangesNothing ==
    (ret # Absent /\ ret.handler = "onSync"
                  /\ ret.call.config.expirationMinutes < 10) =>
        /\ ret.newStatus = "failed"
        /\ status = "failed"
        /\ Snapshot = ret.call.before

\* a pass under expirationMinutes = 5 returns after an earlier pass has
\* stored a token and armed a wakeup
C6_Witness ==
    /\ ret # Absent
    /\ ret.handler = "onSync"
    /\ ret.call.config.expirationMinutes < 10
    /\ kvToken # Absent
    /\ Armed # {}

\* C7: a pass without failures that finds a persisted token of another
\* fingerprint stores a new key under the configured keyring, generates a
\* token of the current fingerprint, cancels the persisted wakeup, arms a
\* wakeup of rotationInterval minutes and persists its handle, and ends
\* ready publishing the new token and the configured keyring; when no
\* rotation wakeup ran meanwhile, that token is the persisted one and that
\* key and that wakeup are the only new ones.
C7_ConfigChangePass ==
    (ret # Absent /\ ret.handler = "onSync" /\ ret.call.branch = "change"
                  /\ ret.newStatus = "ready") =>
        LET call == ret.call
            before == call.before
            key == [keyring |-> call.config.keyring,
                    kid |-> call.tokenData.token.kid]
            minutes == IF call.config.expirationMinutes \div 2 > 5
                       THEN call.config.expirationMinutes \div 2 ELSE 5
            quiet == /\ ~before.rotating
                     /\ nextKeyId = before.nextKeyId + 1
                     /\ nextTimerId = before.nextTimerId + 1
        IN  /\ call.currentToken # Absent
            /\ call.currentToken.configHash # hashConfig(call.config)
            /\ \E k \in kvKeys \ before.kvKeys :
                   k.keyring = key.keyring /\ k.kid = key.kid
            /\ call.tokenData.configHash = hashConfig(call.config)
            /\ \A t \in timers : t.id = call.existingTimerId => t.state # "armed"
            /\ \E t \in timers \ before.timers :
                   /\ t.id = call.timerId
                   /\ t.delay = minutes * 60
            /\ kvTimer = call.timerId
            /\ status = "ready"
            /\ signals.token = call.tokenData.token
            /\ signals.expiresAt = call.tokenData.expiresAt
            /\ signals.keyring = call.config.keyring
            /\ quiet =>
                  /\ kvToken = call.tokenData
                  /\ Cardinality(kvKeys) = Cardinality(before.kvKeys) + 1
                  /\ Cardinality(timers) = Cardinality(before.timers) + 1

\* a config-change pass returns ready having cancelled a wakeup that was
\* persisted and still armed when the pass began
C7_Witness ==
    /\ ret # Absent
    /\ ret.handler = "onSync"
    /\ ret.call.branch = "change"
    /\ ret.newStatus = "ready"
    /\ \E t \in ret.call.before.timers :
           t.id = ret.call.existingTimerId /\ t.state = "armed"
    /\ ret.call.config.keyring # ret.call.before.signals.keyring

\* C8 as stated: a pass that finds a persisted token of the current
\* fingerprint leaves activeKeyring at the value published before the pass.
C8_ReuseLeavesKeyringAsPublished ==
    (ret # Absent /\ ret.handler = "onSync" /\ ret.call.branch = "reuse") =>
        signals.keyring = ret.call.before.signals.keyring

\* C8: a pass that finds a persisted token of the current fingerprint
\* publishes exactly that token and its expiry and ends ready; activeKeyring
\* stays at its published value, or becomes the configured keyring when none
\* was published yet; when no rotation wakeup ran meanwhile, the store is as
\* the pass found it and no wakeup was armed or cancelled.
C8_ReusePassIdempotent ==
    (ret # Absent /\ ret.handler = "onSync" /\ ret.call.branch = "reuse") =>
        LET call == ret.call
            before == call.before
            ids(T) == {t.id : t \in T}
            cancelled(T) == {t.id : t \in {c \in T : c.state = "cancelled"}}
            quiet == /\ ~before.rotating
                     /\ nextKeyId = before.nextKeyId
                     /\ nextTimerId = before.nextTimerId
        IN  /\ call.currentToken.configHash = hashConfig(call.config)
            /\ ret.newStatus = "ready"
            /\ status = "ready"
            /\ signals.token = call.currentToken.token
            /\ signals.expiresAt = call.currentToken.expiresAt
            /\ kvToken = call.currentToken
            /\ signals.keyring = IF before.signals.keyring \notin {NoValue, ""}
                                 THEN before.signals.keyring
                                 ELSE call.config.keyring
            /\ quiet =>
                  /\ kvKeys = before.kvKeys
                  /\ kvToken = before.kvToken
                  /\ kvTimer = before.kvTimer
                  /\ ids(timers) = ids(before.timers)
                  /\ cancelled(timers) = cancelled(before.timers)

\* a reuse pass returns under a configuration naming another keyring than
\* the published one
C8_Witness ==
    /\ ret # Absent
    /\ ret.handler = "onSync"
    /\ ret.call.branch = "reuse"
    /\ ret.call.before.signals.keyring \notin {NoValue, ret.call.config.keyring}
    /\ ~ret.call.before.rotating
    /\ nextKeyId = ret.call.before.nextKeyId

\* C9: a pass without failures under a valid configuration that finds no
\* persisted token ends ready, having stored a key under the configured
\* keyring, generated and published a token that expires expirationMinutes
\* * 60 seconds after its issuance (7200 seconds for 120 minutes), armed a
\* rotation wakeup and persisted its handle, and published the configured
\* keyring; when no rotation wakeup ran meanwhile, that token is the
\* persisted one and that key and that wakeup are the only ones.
C9_BootstrapPass ==
    (ret # Absent /\ ret.handler = "onSync" /\ ret.call.branch = "initial"
                  /\ ret.newStatus = "ready") =>
        LET call == ret.call
            before == call.before
            token == call.tokenData
            minutes == IF call.config.expirationMinutes \div 2 > 5
                       THEN call.config.expirationMinutes \div 2 ELSE 5
            quiet == /\ ~before.rotating
                     /\ nextKeyId = before.nextKeyId + 1
                     /\ nextTimerId = before.nextTimerId + 1
        IN  /\ call.currentToken = Absent
            /\ call.config.expirationMinutes >= 10
            /\ \E k \in kvKeys : /\ k.keyring = call.config.keyring
                                 /\ k.kid = token.token.kid
            /\ token.expiresAt
                 = token.token.payload.iat + call.config.expirationMinutes * 60
            /\ token.token.payload.exp = token.expiresAt
            /\ call.config.expirationMinutes = 120
                 => token.expiresAt - token.token.payload.iat = 7200
            /\ status = "ready"
            /\ signals.token = token.token
            /\ signals.expiresAt = token.expiresAt
            /\ signals.keyring = call.config.keyring
            /\ \E t \in timers : /\ t.id = call.timerId
                                 /\ t.delay = minutes * 60
                                 /\ t.state # "cancelled"
            /\ kvTimer = call.timerId
            /\ quiet =>
                  /\ kvToken = token
                  /\ Cardinality(kvKeys) = 1
                  /\ Cardinality(timers) = 1

\* the bootstrap pass of the default configuration returns ready
C9_Witness ==
    /\ ret # Absent
    /\ ret.handler = "onSync"
    /\ ret.call.branch = "initial"
    /\ ret.newStatus = "ready"
    /\ ret.call.config.expirationMinutes = 120
    /\ ret.call.config.keyring = "default"
    /\ signals.keyring = "default"

\* C10: no token whose lifetime (expiresAt minus issuance time) is under
\* 600 seconds is ever generated, persisted or published.
C10_NoShortLivedToken ==
    \A tokenData \in {kvToken, sync.tokenData, tmr.tokenData} \ {Absent} :
        tokenData.expiresAt - tokenData.token.payload.iat >= 600

\* C11: hashConfig is injective: a configuration that differs from the
\* current one in expirationMinutes, audience, additionalClaims or keyring
\* has another fingerprint.
C11_HashConfigInjective ==
    \A other \in Configs :
        other # config => hashConfig(other) # hashConfig(config)

\* C12: every public key record is written with a TTL of exactly
\* (30 + expirationMinutes) * 60 seconds, expirationMinutes being that of
\* the configuration the generation ran under, so the record outlives the
\* exp of the token signed with that key by at least the 30 minutes of grace.
C12_KeyTtlCoversTokenAndGrace ==
    [][\A k \in kvKeys' \ kvKeys :
          LET used == IF sync.pc = "store" /\ sync' # sync
                      THEN sync.config ELSE tmr.config
          IN  /\ kvToken'.token.kid = k.kid
              /\ k.expiresAt - now = (30 + used.expirationMinutes) * 60
              /\ kvToken'.expiresAt - kvToken'.token.payload.iat
                   = used.expirationMinutes * 60
              /\ k.expiresAt >= kvToken'.token.payload.exp + 30 * 60]_vars

\* a rotation wakeup has just stored a key for a 10-minute token: the record
\* lives 2400 seconds
C12_Witness ==
    /\ tmr.pc = "sync"
    /\ \E k \in kvKeys : /\ k.kid = tmr.tokenData.token.kid
                         /\ tmr.config.expirationMinutes = 10
                         /\ k.expiresAt - now = 2400

\* C13: as long as no keyring signal was ever published, a JWKS request is
\* answered 200 with an empty key set, whatever keyring is configured and
\* whatever keys the store holds.
C13_NoKeyringEmptyJwks ==
    (resp # Absent /\ published = {}) =>
        /\ resp.statusCode = 200
        /\ resp.keys = <<>>

\* a request is answered before any keyring was published while the store
\* already holds a live key under the configured keyring
C13_Witness ==
    /\ resp # Absent
    /\ published = {}
    /\ signals.keyring = NoValue
    /\ \E k \in LiveKeys : k.keyring = config.keyring

\* C14: in every token generated, jti, iss, sub, aud, exp, iat and nbf are
\* the values the issuer computes (sub "flows", iss the origin of the app
\* URL, aud the configured audience or the URL's host, exp = iat +
\* expirationMinutes * 60, nbf = iat), also when additionalClaims has
\* members of those names; every other member of additionalClaims is in the
\* payload with its value.
C14_StandardClaimsOverride ==
    \A call \in {c \in {sync, tmr} : c.tokenData # Absent} :
        LET payload == call.tokenData.token.payload
            members == call.config.additionalClaims.members
            standard == {"jti", "iss", "sub", "aud", "exp", "iat", "nbf"}
        IN  /\ payload.sub = "flows"
            /\ payload.iss = AppOrigin
            /\ payload.aud = IF call.config.audience \notin {NoValue, ""}
                             THEN call.config.audience ELSE AppHost
            /\ payload.jti = call.tokenData.token.kid
            /\ payload.exp = payload.iat + call.config.expirationMinutes * 60
            /\ payload.nbf = payload.iat
            /\ call.tokenData.expiresAt = payload.exp
            /\ \A i \in 1..Len(members) :
                   members[i][1] \notin standard =>
                       /\ members[i][1] \in DOMAIN payload
                       /\ payload[members[i][1]] = members[i][2]
            /\ DOMAIN payload
                 = standard \cup {members[i][1] : i \in 1..Len(members)}

\* a token was generated under additionalClaims that name sub and exp and a
\* custom claim
C14_Witness ==
    /\ sync.tokenData # Absent
    /\ sync.config.additionalClaims.given
    /\ \E i, j \in 1..Len(sync.config.additionalClaims.members) :
           /\ sync.config.additionalClaims.members[i][1] = "sub"
           /\ sync.config.additionalClaims.members[j][1] = "team"
    /\ sync.tokenData.token.payload.team = "y"

C16_NoPrivateKeyStored ==
    LET tokenFields == {"kid", "alg", "payload"}
        tokens == {kvToken, sync.tokenData, tmr.tokenData} \ {Absent}
    IN  /\ \A k \in kvKeys :
               /\ DOMAIN k = {"keyring", "kid", "value", "expiresAt"}
               /\ "d" \notin DOMAIN k.value
               /\ k.value = [kty |-> "RSA", n |-> k.kid, e |-> "AQAB"]
        /\ kvToken # Absent =>
               /\ DOMAIN kvToken = {"token", "expiresAt", "configHash"}
               /\ DOMAIN kvToken.token = tokenFields
        /\ kvTimer = NoValue \/ \E t \in timers : t.id = kvTimer
        /\ DOMAIN signals = {"token", "expiresAt", "issuer", "keyring"}
        /\ signals.token # Absent => DOMAIN signals.token = tokenFields
        /\ \A a, b \in tokens : a.token.kid = b.token.kid => a = b

\* a rotation has stored a second key next to the bootstrap's, and a token
\* is published
C16_Witness ==
    /\ Cardinality(kvKeys) >= 2
    /\ kvToken # Absent
    /\ signals.token # Absent
    /\ kvTimer # NoValue

\* C17: a rotation wakeup that meets no failure first stores the new public
\* key and overwrites the token record, then asks for a reconciliation
\* pass, then arms exactly one wakeup of rotationInterval(expirationMinutes)
\* * 60 seconds, expirationMinutes being that of the configuration the
\* wakeup was delivered with, then overwrites the persisted handle with that
\* wakeup's id; it arms no wakeup before key and token are persisted.
C17_RotationStepOrder ==
    [][LET persisted ==
               \E k \in kvKeys : /\ k.kid = tmr.tokenData.token.kid
                                 /\ k.keyring = tmr.config.keyring
           minutes == IF tmr.config.expirationMinutes \div 2 > 5
                      THEN tmr.config.expirationMinutes \div 2 ELSE 5
       IN  /\ (tmr.pc = "store" /\ tmr'.pc # "store") =>
                 \/ tmr'.pc = "retry_arm"
                 \/ /\ tmr'.pc = "sync"
                    /\ kvToken' = tmr.tokenData
                    /\ \E k \in kvKeys' \ kvKeys :
                           /\ k.kid = tmr.tokenData.token.kid
                           /\ k.keyring = tmr.config.keyring
                    /\ timers' = timers
           /\ (tmr.pc = "sync" /\ tmr'.pc # "sync") =>
                 \/ tmr'.pc = "retry_arm"
                 \/ /\ tmr'.pc = "arm"
                    /\ persisted
                    /\ syncPending'
                    /\ timers' = timers
           /\ (tmr.pc = "arm" /\ tmr'.pc # "arm") =>
                 \/ tmr'.pc = "retry_arm"
                 \/ /\ tmr'.pc = "settimer"
                    /\ persisted
                    /\ Cardinality(timers' \ timers) = 1
                    /\ \A t \in timers' \ timers :
                           /\ t.id = tmr'.timerId
                           /\ t.delay = minutes * 60
                           /\ t.state = "armed"
           /\ (tmr.pc = "settimer" /\ tmr'.pc # "settimer") =>
                 \/ tmr'.pc = "retry_arm"
                 \/ /\ tmr'.pc = "idle"
                    /\ persisted
                    /\ kvTimer' = tmr.timerId
                    /\ ret'.handler = "onTimer"
                    /\ ret'.newStatus = "returned"
           /\ (tmr.pc \in {"gen", "store", "sync"} /\ tmr' # tmr) =>
                 /\ tmr'.timerId = NoValue
                 /\ \A t \in timers' \ timers : sync'.timerId = t.id]_vars

\* a wakeup armed under a 10-minute configuration was delivered with the
\* 120-minute one and, key and token persisted, has armed its successor:
\* 3600 seconds
C17_Witness ==
    /\ tmr.pc = "settimer"
    /\ tmr.threwAt = NoValue
    /\ tmr.config.expirationMinutes = 120
    /\ kvToken = tmr.tokenData
    /\ \E t \in timers : t.id = tmr.firedId /\ t.delay = 300
    /\ \E t \in timers : t.id = tmr.timerId /\ t.delay = 3600

\* C18: every rotation wakeup that failed is followed by another wakeup,
\* armed by it with a delay of 300 seconds, so that rotation is retried
\* until it succeeds.
C18_FailedRotationAlwaysRetried ==
    (ret # Absent /\ ret.handler = "onTimer" /\ ret.call.threwAt # NoValue) =>
        \E t \in timers :
            /\ t.id \notin {b.id : b \in ret.call.before.timers}
            /\ t.id = ret.call.timerId
            /\ t.delay = 300

\* C19: a rotation wakeup whose persisted handle was replaced by a
\* config-change reconciliation does not overwrite the token record that
\* reconciliation wrote (of the current configuration's fingerprint) with a
\* token of another fingerprint.
C19_StaleWakeupKeepsTokenRecord ==
    [][(/\ tmr.pc = "store"
        /\ tmr'.pc = "sync"
        /\ kvTimer # tmr.firedId
        /\ kvToken # Absent
        /\ kvToken.configHash = hashConfig(config)
        /\ tmr.tokenData.configHash # hashConfig(config))
       => kvToken'.configHash = hashConfig(config)]_vars

\* C20: a reconciliation pass in which key/token generation, a store read
\* or write, the cancelling or the arming of a wakeup fails returns status
\* failed without signal updates: token, expiresAt, issuer and activeKeyring
\* stay as published, and onSync returns a result instead of throwing.
C20_FailedPassKeepsSignals ==
    (ret # Absent /\ ret.handler = "onSync") =>
        /\ ret.newStatus \in {"ready", "failed"}
        /\ (ret.newStatus = "failed" /\ ret.call.branch # "invalid") =>
               /\ status = "failed"
               /\ signals = ret.call.before.signals
               /\ signals.keyring = NoValue \/ signals.keyring \in published

\* a config-change pass failed after it had replaced the token record; a
\* token was published before
C20_Witness ==
    /\ ret # Absent
    /\ ret.handler = "onSync"
    /\ ret.newStatus = "failed"
    /\ ret.call.branch = "change"
    /\ ret.call.before.signals.token # Absent
    /\ kvToken # ret.call.before.kvToken
    /\ signals.token # kvToken.token

\* C21: a JWKS request under a published keyring K, during which the store
\* did not change, is answered with every live public key stored under
\* "key:K:", each exactly once and each tagged alg RS256 and use sig; K is
\* the published keyring the request read, not the configured one; while
\* the request pages through the store its cursor has passed exactly the
\* keys collected so far, so the paging ends.
C21_JwksListsEveryKeyOnce ==
    /\ (resp # Absent /\ resp.statusCode = 200 /\ resp.keyring # NoValue
                      /\ resp.stored = kvKeys /\ resp.startedAt = now) =>
           LET under == {k \in kvKeys : k.keyring = resp.keyring
                                        /\ k.expiresAt > now}
               idx == 1..Len(resp.keys)
           IN  /\ resp.keyring \in published
               /\ {resp.keys[i].pub : i \in idx} = {k.kid : k \in under}
               /\ Len(resp.keys) = Cardinality(under)
               /\ \A i \in idx : /\ resp.keys[i].alg = "RS256"
                                 /\ resp.keys[i].use = "sig"
    /\ (jwks.pc = "list" /\ jwks.stored = kvKeys /\ jwks.startedAt = now) =>
           LET collected == {jwks.pubKeys[i].pub : i \in 1..Len(jwks.pubKeys)}
               under == {k \in kvKeys : k.keyring = jwks.keyring
                                        /\ k.expiresAt > now}
               passed == {k \in under : /\ jwks.startingKey # <<>>
                                        /\ SeqLess(KeyName(k.keyring, k.kid),
                                                   jwks.startingKey)}
           IN  /\ Cardinality(collected) = Len(jwks.pubKeys)
               /\ jwks.keyring \in published
               /\ collected = {k.kid : k \in passed}
               /\ jwks.startingKey # <<>> => passed # under

\* a request is answered with two keys of the published keyring, fetched
\* over more than one page, while another keyring is configured
C21_Witness ==
    /\ resp # Absent
    /\ resp.statusCode = 200
    /\ Len(resp.keys) >= 2
    /\ Len(resp.keys) > PageSize
    /\ resp.stored = kvKeys
    /\ resp.keyring # config.keyring

\* C22: whenever a reconciliation pass ends ready, the public key whose id
\* the published token carries is stored under the prefix of the published
\* activeKeyring.
C22_PublishedTokenKeyUnderPublishedKeyring ==
    (ret # Absent /\ ret.handler = "onSync" /\ ret.newStatus = "ready") =>
        \E k \in kvKeys : /\ k.kid = signals.token.kid
                          /\ k.keyring = signals.keyring

\* C23: whenever no handler is in flight or owed and a token record is
\* persisted, a rotation wakeup is armed and the persisted handle is its id.
C23_RotationNeverStalls ==
    (sync.pc = "idle" /\ tmr.pc = "idle" /\ ~syncPending /\ kvToken # Absent) =>
        \E t \in Armed : t.id = kvTimer

====
